---- MODULE Spec2Model ----
(***************************************************************************)
(* holo-build: the build orchestrator (common/build.go) driving a format    *)
(*                                                                          *)
(* generator, the RPM generator's region layout (rpm/generator.go) and the  *)
(* Pacman generator's metadata functions.                                   *)
(*                                                                          *)
(* Text is modelled structurally: for Build a path is the sequence of its   *)
(* components and a script the sequence of its lines; a byte string is a    *)
(* sequence of byte values; the Pacman functions work on sequences of       *)
(* characters.                                                              *)
(***************************************************************************)
EXTENDS Integers, Sequences, FiniteSets, TLC

VARIABLES
    pkg0,               \* the package model as loaded (input of every run)
    pkg,                \* the package model Build mutates in place
    printToStdout,      \* Build parameter
    buildReproducibly,  \* Build parameter
    pc,                 \* position inside Build
    err,                \* "running" | "nil" | the error Build returned
    pkgBytes,           \* which generator method produced the bytes ("none" if none)
    root,               \* state of ./holo-build-<name>-<version>
    root0,              \* state of that directory when the current run started
    pkgFile,            \* the name RecommendedFileName returned (<<>> if not called)
    out,                \* what this run wrote to stdout / the working directory
    calls,              \* generator methods called in this run, with outcome
    run,                \* number of the current run of the program
    prev,               \* package state handed to the generator by the previous run
    rpm,                \* state of the RPM generator's Build
    pacman              \* state of the Pacman generator's functions

vars == <<pkg0, pkg, printToStdout, buildReproducibly, pc, err, pkgBytes,
          root, root0, pkgFile, out, calls, run, prev, rpm, pacman>>

----------------------------------------------------------------------------
(* Bounds *)

MaxRuns == 2            \* runs of the program on the same package definition

----------------------------------------------------------------------------
(* Generic helpers *)

RECURSIVE SeqsOver(_)
\* all orders in which the elements of the finite set S can be enumerated
SeqsOver(S) ==
    IF S = {} THEN { <<>> }
    ELSE UNION { { <<x>> \o s : s \in SeqsOver(S \ {x}) } : x \in S }

----------------------------------------------------------------------------
(* Filesystem tree model *)

\* owner/group of a node: either a numeric id or a symbolic name
NumericID(n) == [id |-> n, name |-> ""]
SymbolicName(s) == [id |-> 0, name |-> s]
IsSymbolic(o) == o.name # ""

FSDirectory == "directory"
FSRegularFile == "file"
FSSymlink == "symlink"

Node(path, type) == [path |-> path, type |-> type,
                     owner |-> NumericID(0), group |-> NumericID(0)]

\* the paths a tree may contain, in the order the walk visits them
\* (a directory before its entries, entries sorted by name)
CandidateNodes ==
    << Node(<<"etc">>, FSDirectory),
       Node(<<"etc", "c">>, FSRegularFile),
       Node(<<"etc", "l">>, FSSymlink),
       Node(<<"usr">>, FSDirectory),
       Node(<<"usr", "share">>, FSDirectory),
       Node(<<"usr", "share", "holo">>, FSDirectory),
       Node(<<"usr", "share", "holo", "files">>, FSDirectory),
       Node(<<"usr", "share", "holo", "files", "a">>, FSRegularFile),
       Node(<<"usr", "share", "holo", "users">>, FSDirectory),
       Node(<<"usr", "share", "holo", "users", "b">>, FSRegularFile) >>

LeafPaths == { <<"etc", "c">>, <<"etc", "l">>,
               <<"usr", "share", "holo", "files", "a">>,
               <<"usr", "share", "holo", "users", "b">> }

IsPathPrefix(p, q) == Len(p) <= Len(q) /\ SubSeq(q, 1, Len(p)) = p

\* the nodes whose metadata the package definition may give by name
NamedOwnerPaths == { <<"etc", "c">>, <<"usr", "share", "holo", "files">> }

OwnerChoices == { [owner |-> o, group |-> g] :
                    o \in { NumericID(0), SymbolicName("u") },
                    g \in { NumericID(0), SymbolicName("g") } }

\* the tree holding the given leaves and their parent directories; meta gives
\* owner and group of the nodes of NamedOwnerPaths
TreeOf(leaves, meta) ==
    LET present(n) == \E l \in leaves : IsPathPrefix(n.path, l)
        withMeta(n) == IF n.path \in NamedOwnerPaths
                       THEN [n EXCEPT !.owner = meta[n.path].owner,
                                      !.group = meta[n.path].group]
                       ELSE n
        nodes == SelectSeq(CandidateNodes, present)
    IN  [i \in DOMAIN nodes |-> withMeta(nodes[i])]

\* strings.Split("/" + joined components, "/")
SplitPath(path) == <<"">> \o path

\* strings.HasPrefix(path, "/usr/share/holo/")
HasHoloPrefix(path) ==
    Len(path) > 3 /\ SubSeq(path, 1, 3) = <<"usr", "share", "holo">>

----------------------------------------------------------------------------
(* Script lines *)

Line(text) == [cmd |-> text, owner |-> "", group |-> "", path |-> <<>>]
HoloApply == Line("holo apply")
Chown(owner, group, path) ==
    [cmd |-> "chown", owner |-> owner, group |-> group, path |-> path]

----------------------------------------------------------------------------
(* Package.doMagicalHoloIntegration *)

\* the plugin IDs collected by the walk (build.go:97-107)
Plugins(tree) ==
    { SplitPath(tree[i].path)[5] :
        i \in { j \in DOMAIN tree : /\ HasHoloPrefix(tree[j].path)
                                    /\ Len(SplitPath(tree[j].path)) > 4 } }

DepName(pluginID) == "holo-" \o pluginID

HasDep(requires, depName) ==
    \E i \in DOMAIN requires : requires[i].RelatedPackage = depName

RECURSIVE AddPluginDeps_NoDuplicateCheck(_, _)
\* variant: the loop without its search for an existing relation
AddPluginDeps_NoDuplicateCheck(requires, order) ==
    IF order = <<>> THEN requires
    ELSE AddPluginDeps_NoDuplicateCheck(
             Append(requires, [RelatedPackage |-> DepName(Head(order))]),
             Tail(order))

RECURSIVE AddPluginDeps(_, _)
\* the loop of build.go:113-125, visiting the plugin IDs in the given order
AddPluginDeps(requires, order) ==
    IF order = <<>> THEN requires
    ELSE LET depName == DepName(Head(order))
         IN  AddPluginDeps(IF HasDep(requires, depName)
                           THEN requires
                           ELSE Append(requires, [RelatedPackage |-> depName]),
                           Tail(order))

RECURSIVE Repeat(_, _)
Repeat(line, n) == IF n = 0 THEN <<>> ELSE <<line>> \o Repeat(line, n - 1)

\* variant: `holo apply` prepended inside the loop, once per plugin
doMagicalHoloIntegration_PerPlugin(p, order) ==
    IF Plugins(p.FSRoot) = {} THEN p
    ELSE [p EXCEPT !.Requires = AddPluginDeps(@, order),
                   !.SetupScript = Repeat(HoloApply, Len(order)) \o @,
                   !.CleanupScript = Repeat(HoloApply, Len(order)) \o @]

\* order: the order in which `range plugins` enumerates the map
doMagicalHoloIntegration(p, order) ==
    IF Plugins(p.FSRoot) = {} THEN p
    ELSE [p EXCEPT !.Requires = AddPluginDeps(@, order),
                   !.SetupScript = <<HoloApply>> \o @,
                   !.CleanupScript = <<HoloApply>> \o @]

----------------------------------------------------------------------------
(* Package.postponeUnmaterializableFSMetadata *)

\* FSNodeMetadata.PostponeUnmaterializable: the chown line for a node (none
\* if neither owner nor group is given by name)
PostponeScript(n) ==
    IF IsSymbolic(n.owner) \/ IsSymbolic(n.group)
    THEN << Chown(n.owner.name, n.group.name, n.path) >>
    ELSE << >>

\* FSNodeMetadata.PostponeUnmaterializable: the metadata left in the node
PostponeNode(n) ==
    [n EXCEPT !.owner = IF IsSymbolic(@) THEN NumericID(0) ELSE @,
              !.group = IF IsSymbolic(@) THEN NumericID(0) ELSE @]

HasMetadata(n) == n.type \in { FSDirectory, FSRegularFile }

RECURSIVE AdditionalSetupScript(_)
AdditionalSetupScript(tree) ==
    IF tree = <<>> THEN <<>>
    ELSE (IF HasMetadata(Head(tree)) THEN PostponeScript(Head(tree)) ELSE <<>>)
         \o AdditionalSetupScript(Tail(tree))

\* variant: the chown lines put behind the setup script
postponeUnmaterializableFSMetadata_Appended(p) ==
    [p EXCEPT !.FSRoot = [i \in DOMAIN @ |->
                            IF HasMetadata(@[i]) THEN PostponeNode(@[i]) ELSE @[i]],
              !.SetupScript = @ \o AdditionalSetupScript(p.FSRoot)]

postponeUnmaterializableFSMetadata(p) ==
    [p EXCEPT !.FSRoot = [i \in DOMAIN @ |->
                            IF HasMetadata(@[i]) THEN PostponeNode(@[i]) ELSE @[i]],
              !.SetupScript = AdditionalSetupScript(p.FSRoot) \o @]

----------------------------------------------------------------------------
(* Package.Build *)

UnsupportedBuildMethodError == "UnsupportedBuildMethodError"

\* the outcomes of Generator.BuildInMemory that Build tells apart
BuildInMemoryResults == { "ok", UnsupportedBuildMethodError, "BuildInMemoryError" }

\* strings.ContainsAny(s, chars)
ContainsAny(s, chars) == \E i \in DOMAIN s : s[i] \in chars

\* variant: the carriage return left out
FileNameCutset_NoCR == { "/", " ", "\t", "\n" }

\* the second argument of strings.ContainsAny in build.go:83
FileNameCutset == { "/", " ", "\t", "\r", "\n" }

\* the names a generator's RecommendedFileName may return
FileNames ==
    { <<"p">> } \cup { <<"p", c, "q">> : c \in { "/", " ", "\t", "\r", "\n", "\f", "." } }

NoOutput == [kind |-> "none", name |-> <<>>, bytes |-> "none", complete |-> FALSE]

Call(method, result) == [method |-> method, result |-> result]

\* return err
Return(e) == /\ err' = e
             /\ pc' = "returned"

Packages ==
    { [ Requires |-> req, SetupScript |-> scr.setup, CleanupScript |-> scr.cleanup,
        FSRoot |-> TreeOf(leaves, meta) ] :
        req \in { <<>>,
                  << [RelatedPackage |-> "x"] >>,
                  << [RelatedPackage |-> "holo-files"] >>,
                  << [RelatedPackage |-> "x"], [RelatedPackage |-> "holo-users"] >> },
        scr \in { [setup |-> <<>>, cleanup |-> <<>>],
                  [setup |-> <<Line("s")>>, cleanup |-> <<Line("c")>>] },
        leaves \in SUBSET LeafPaths,
        meta \in [NamedOwnerPaths -> OwnerChoices] }

RpmIdle == [pc |-> "idle", lead |-> <<>>, signatureSection |-> <<>>,
            headerSection |-> <<>>, payload |-> <<>>,
            combined1 |-> <<>>, combined2 |-> <<>>, result |-> <<>>]

PacmanIdle == [pc |-> "idle"]

Init ==
    /\ pkg0 \in Packages
    /\ pkg = pkg0
    /\ printToStdout \in BOOLEAN
    /\ buildReproducibly \in BOOLEAN
    /\ pc = "start"
    /\ err = "running"
    /\ pkgBytes = "none"
    /\ root = "absent"
    /\ root0 = "absent"
    /\ pkgFile = <<>>
    /\ out = NoOutput
    /\ calls = <<>>
    /\ run = 1
    /\ prev = pkg0
    /\ rpm = RpmIdle
    /\ pacman = PacmanIdle

\* build.go:34
DoMagicalHoloIntegration ==
    /\ pc = "start"
    /\ \E order \in SeqsOver(Plugins(pkg.FSRoot)) :
          pkg' = doMagicalHoloIntegration(pkg, order)
    /\ pc' = "integrated"
    /\ UNCHANGED <<pkg0, printToStdout, buildReproducibly, err, pkgBytes, root,
                   root0, pkgFile, out, calls, run, prev, rpm, pacman>>

\* build.go:36
PostponeUnmaterializableFSMetadata ==
    /\ pc = "integrated"
    /\ pkg' = postponeUnmaterializableFSMetadata(pkg)
    /\ pc' = "preprocessed"
    /\ UNCHANGED <<pkg0, printToStdout, buildReproducibly, err, pkgBytes, root,
                   root0, pkgFile, out, calls, run, prev, rpm, pacman>>

\* variant: every error of BuildInMemory returned, the sentinel too
AfterBuildInMemory_SentinelReturned(res) ==
    IF res # "ok"
    THEN Return(res) /\ UNCHANGED pkgBytes
    ELSE pc' = "output" /\ pkgBytes' = "BuildInMemory" /\ UNCHANGED err

\* variant: every error of BuildInMemory answered by the fallback
AfterBuildInMemory_FallbackOnError(res) ==
    IF res # "ok"
    THEN pc' = "removeStaleRoot" /\ UNCHANGED <<err, pkgBytes>>
    ELSE pc' = "output" /\ pkgBytes' = "BuildInMemory" /\ UNCHANGED err

\* where Build goes on after BuildInMemory returned res (build.go:40-45)
AfterBuildInMemory(res) ==
    IF res # "ok" /\ res # UnsupportedBuildMethodError
    THEN Return(res) /\ UNCHANGED pkgBytes
    ELSE IF res = UnsupportedBuildMethodError
         THEN pc' = "removeStaleRoot" /\ UNCHANGED <<err, pkgBytes>>
         ELSE pc' = "output" /\ pkgBytes' = "BuildInMemory" /\ UNCHANGED err

\* build.go:39-45
BuildInMemory ==
    /\ pc = "preprocessed"
    /\ \E res \in BuildInMemoryResults :
          /\ calls' = Append(calls, Call("BuildInMemory", res))
          /\ AfterBuildInMemory(res)
    /\ UNCHANGED <<pkg0, pkg, printToStdout, buildReproducibly, root, root0,
                   pkgFile, out, run, prev, rpm, pacman>>

\* variant: the error of the first os.RemoveAll not checked
RemoveStaleRoot_ErrorIgnored ==
    /\ pc = "removeStaleRoot"
    /\ \/ root' = "absent"
       \/ root # "absent" /\ UNCHANGED root
    /\ pc' = "materialize"
    /\ UNCHANGED <<pkg0, pkg, printToStdout, buildReproducibly, pkgBytes, root0,
                   pkgFile, out, calls, run, prev, rpm, pacman, err>>

\* build.go:51-54; os.RemoveAll of a path that does not exist succeeds
RemoveStaleRoot ==
    /\ pc = "removeStaleRoot"
    /\ \/ /\ root' = "absent"
          /\ pc' = "materialize"
          /\ UNCHANGED err
       \/ /\ root # "absent"
          /\ UNCHANGED root
          /\ Return("RemoveAllError")
    /\ UNCHANGED <<pkg0, pkg, printToStdout, buildReproducibly, pkgBytes, root0,
                   pkgFile, out, calls, run, prev, rpm, pacman>>

\* build.go:57-60 with materializeFSEntries (build.go:155-177)
MaterializeFSEntries ==
    /\ pc = "materialize"
    /\ \/ /\ root' = "materialized"
          /\ pc' = "generatorBuild"
          /\ UNCHANGED err
       \/ /\ root' \in { "absent", "partial" }
          /\ Return("MaterializeError")
       \/ /\ buildReproducibly
          /\ root' = "materialized"
          /\ Return("ResetTimestampError")
    /\ UNCHANGED <<pkg0, pkg, printToStdout, buildReproducibly, pkgBytes, root0,
                   pkgFile, out, calls, run, prev, rpm, pacman>>

\* build.go:63-66; the generator writes its metadata files into the root
GeneratorBuild ==
    /\ pc = "generatorBuild"
    /\ \/ /\ calls' = Append(calls, Call("Build", "ok"))
          /\ root' = "packaged"
          /\ pkgBytes' = "Build"
          /\ pc' = "cleanupRoot"
          /\ UNCHANGED err
       \/ /\ calls' = Append(calls, Call("Build", "BuildError"))
          /\ root' \in { "materialized", "packaged" }
          /\ Return("BuildError")
          /\ UNCHANGED pkgBytes
    /\ UNCHANGED <<pkg0, pkg, printToStdout, buildReproducibly, root0, pkgFile,
                   out, run, prev, rpm, pacman>>

\* variant: the root directory not removed after the generator's build
CleanupRoot_Skipped ==
    /\ pc = "cleanupRoot"
    /\ pc' = "output"
    /\ UNCHANGED <<pkg0, pkg, printToStdout, buildReproducibly, pkgBytes, root0,
                   pkgFile, out, calls, run, prev, rpm, pacman, err, root>>

\* build.go:69-72
CleanupRoot ==
    /\ pc = "cleanupRoot"
    /\ \/ /\ root' = "absent"
          /\ pc' = "output"
          /\ UNCHANGED err
       \/ /\ UNCHANGED root
          /\ Return("RemoveAllError")
    /\ UNCHANGED <<pkg0, pkg, printToStdout, buildReproducibly, pkgBytes, root0,
                   pkgFile, out, calls, run, prev, rpm, pacman>>

\* build.go:76-80; a failed write may have written a part of the bytes
WriteStdout ==
    /\ pc = "output"
    /\ printToStdout
    /\ \/ /\ out' = [kind |-> "stdout", name |-> <<>>, bytes |-> pkgBytes,
                     complete |-> TRUE]
          /\ Return("nil")
       \/ /\ out' \in { out, [kind |-> "stdout", name |-> <<>>, bytes |-> pkgBytes,
                              complete |-> FALSE] }
          /\ Return("WriteError")
    /\ UNCHANGED <<pkg0, pkg, printToStdout, buildReproducibly, pkgBytes, root,
                   root0, pkgFile, calls, run, prev, rpm, pacman>>

\* build.go:82-89; a failed write may leave an incomplete file
WriteFile ==
    /\ pc = "output"
    /\ ~printToStdout
    /\ \E name \in FileNames :
          /\ calls' = Append(calls, Call("RecommendedFileName", "ok"))
          /\ pkgFile' = name
          /\ IF ContainsAny(name, FileNameCutset)
             THEN /\ Return("UnexpectedFilename")
                  /\ UNCHANGED out
             ELSE \/ /\ out' = [kind |-> "file", name |-> name,
                                bytes |-> pkgBytes, complete |-> TRUE]
                     /\ Return("nil")
                  \/ /\ out' \in { out, [kind |-> "file", name |-> name,
                                         bytes |-> pkgBytes, complete |-> FALSE] }
                     /\ Return("WriteError")
    /\ UNCHANGED <<pkg0, pkg, printToStdout, buildReproducibly, pkgBytes, root,
                   root0, run, prev, rpm, pacman>>

\* the program is run again on the same package definition, in the same
\* working directory: whatever the last run left at the root path is still there
RunAgain ==
    /\ pc = "returned"
    /\ run < MaxRuns
    /\ run' = run + 1
    /\ prev' = pkg
    /\ pkg' = pkg0
    /\ pc' = "start"
    /\ err' = "running"
    /\ pkgBytes' = "none"
    /\ root' = IF root = "absent" THEN "absent" ELSE "stale"
    /\ root0' = root'
    /\ pkgFile' = <<>>
    /\ out' = NoOutput
    /\ calls' = <<>>
    /\ UNCHANGED <<pkg0, printToStdout, buildReproducibly, rpm, pacman>>

Next ==
    \/ DoMagicalHoloIntegration
    \/ PostponeUnmaterializableFSMetadata
    \/ BuildInMemory
    \/ RemoveStaleRoot
    \/ MaterializeFSEntries
    \/ GeneratorBuild
    \/ CleanupRoot
    \/ WriteStdout
    \/ WriteFile
    \/ RunAgain

Spec == Init /\ [][Next]_vars

----------------------------------------------------------------------------
(* Properties of the pre-processing passes *)

Count(s, P(_)) == Cardinality({ i \in DOMAIN s : P(s[i]) })

IsPrefixOf(s, t) == Len(s) <= Len(t) /\ SubSeq(t, 1, Len(s)) = s

\* the plugin IDs of the paths under /usr/share/holo/<P>/ of the loaded package
HoloPluginsOfInput ==
    { p \in { "files", "users" } :
        \E i \in DOMAIN pkg0.FSRoot :
            IsPathPrefix(<<"usr", "share", "holo", p>>, pkg0.FSRoot[i].path) }

NamesSymbolic(n) == HasMetadata(n) /\ (IsSymbolic(n.owner) \/ IsSymbolic(n.group))

Integrated == pc # "start"
Preprocessed == pc \notin { "start", "integrated" }

\* C1: after doMagicalHoloIntegration, for every plugin P with a path under
\* /usr/share/holo/P in the tree, Requires holds exactly one relation named
\* holo-P; the relations present before the pass are kept, in place, and a
\* relation is added only for the plugins that had none.
C1_ExactlyOneHoloDependency ==
    Integrated =>
        /\ \A p \in HoloPluginsOfInput :
              LET isDep(rel) == rel.RelatedPackage = "holo-" \o p
              IN  Count(pkg.Requires, isDep) = 1
        /\ IsPrefixOf(pkg0.Requires, pkg.Requires)
        /\ Len(pkg.Requires) = Len(pkg0.Requires)
              + Cardinality({ p \in HoloPluginsOfInput :
                                ~ \E i \in DOMAIN pkg0.Requires :
                                    pkg0.Requires[i].RelatedPackage = "holo-" \o p })

\* two plugins, several paths of one of them, one dependency already there
C1_Witness ==
    /\ Integrated
    /\ HoloPluginsOfInput = { "files", "users" }
    /\ \E i \in DOMAIN pkg0.Requires : pkg0.Requires[i].RelatedPackage = "holo-users"
    /\ Len(pkg.Requires) = 3

IsHoloApply(line) == line = HoloApply

\* C2 as claimed: after both passes of a package with a path under the
\* provisioning prefix, SetupScript and CleanupScript both begin with
\* `holo apply`, which was prepended exactly once to each.
C2_BothScriptsBeginWithHoloApply ==
    (Preprocessed /\ HoloPluginsOfInput # {}) =>
        /\ pkg.SetupScript # <<>> /\ Head(pkg.SetupScript) = HoloApply
        /\ pkg.CleanupScript # <<>> /\ Head(pkg.CleanupScript) = HoloApply
        /\ Count(pkg.SetupScript, IsHoloApply) = 1
        /\ Count(pkg.CleanupScript, IsHoloApply) = 1

\* C2 as amended: after both passes of a package with a path under the
\* provisioning prefix, `holo apply` has been prepended exactly once to each
\* script; CleanupScript begins with it, and in SetupScript it directly
\* precedes the script's original content and is preceded only by the chown
\* lines of the ownership-deferral pass, one per node with a symbolic owner or
\* group (so SetupScript begins with it exactly when there is no such node).
C2_HoloApplyPrependedOnce ==
    (Preprocessed /\ HoloPluginsOfInput # {}) =>
        LET k == Count(pkg0.FSRoot, NamesSymbolic)
        IN  /\ pkg.CleanupScript = <<HoloApply>> \o pkg0.CleanupScript
            /\ Len(pkg.SetupScript) = k + 1 + Len(pkg0.SetupScript)
            /\ \A i \in 1..k : pkg.SetupScript[i].cmd = "chown"
            /\ pkg.SetupScript[k + 1] = HoloApply
            /\ SubSeq(pkg.SetupScript, k + 2, Len(pkg.SetupScript)) = pkg0.SetupScript
            /\ (Head(pkg.SetupScript) = HoloApply) <=> (k = 0)

\* two plugins and a node with a symbolic owner
C2_Witness ==
    /\ Preprocessed
    /\ HoloPluginsOfInput = { "files", "users" }
    /\ Count(pkg0.FSRoot, NamesSymbolic) > 0
    /\ pkg.SetupScript[1].cmd = "chown"

\* C3: the ownership-deferral pass leaves no directory or regular file with a
\* symbolic owner or group, puts one chown line per node that had one (naming
\* that node's path and symbolic owner/group) in front of all of SetupScript's
\* earlier content, and changes neither the other nodes, nor the numeric
\* owners and groups, nor CleanupScript, nor Requires.
C3_OwnershipDeferred ==
    [][ (pc = "integrated" /\ pc' = "preprocessed") =>
          LET old == pkg.FSRoot
              new == pkg'.FSRoot
              sym == { i \in DOMAIN old : NamesSymbolic(old[i]) }
              k == Cardinality(sym)
          IN  /\ DOMAIN new = DOMAIN old
              /\ \A i \in DOMAIN new :
                    /\ new[i].path = old[i].path /\ new[i].type = old[i].type
                    /\ HasMetadata(new[i]) =>
                          ~IsSymbolic(new[i].owner) /\ ~IsSymbolic(new[i].group)
                    /\ ~IsSymbolic(old[i].owner) => new[i].owner = old[i].owner
                    /\ ~IsSymbolic(old[i].group) => new[i].group = old[i].group
                    /\ ~HasMetadata(old[i]) => new[i] = old[i]
              /\ Len(pkg'.SetupScript) = k + Len(pkg.SetupScript)
              /\ SubSeq(pkg'.SetupScript, k + 1, Len(pkg'.SetupScript)) = pkg.SetupScript
              /\ \A i \in sym :
                    Cardinality({ j \in 1..k :
                        pkg'.SetupScript[j] =
                            Chown(old[i].owner.name, old[i].group.name, old[i].path) }) = 1
              /\ pkg'.CleanupScript = pkg.CleanupScript
              /\ pkg'.Requires = pkg.Requires ]_vars

\* the pass has run on a tree with two such nodes, a symlink and a script
C3_Witness ==
    /\ pc = "preprocessed"
    /\ Count(pkg0.FSRoot, NamesSymbolic) = 2
    /\ \E i \in DOMAIN pkg.FSRoot : pkg.FSRoot[i].type = FSSymlink
    /\ pkg0.SetupScript # <<>>
    /\ Len(pkg.SetupScript) >= 3

----------------------------------------------------------------------------
(* Properties of Build *)

Returned == pc = "returned"
Called(method) == \E i \in DOMAIN calls : calls[i].method = method
IsFailure(res) == res # "ok" /\ res # "UnsupportedBuildMethodError"
InFallback == pc \in { "removeStaleRoot", "materialize", "generatorBuild", "cleanupRoot" }

\* C4: two runs of Build in reproducible mode on the same package model hand
\* the same pre-processed package (the same Requires in the same order, the
\* same scripts, the same tree) to the generator.
C4_ReproduciblePreprocessing ==
    (run > 1 /\ buildReproducibly /\ Preprocessed) => pkg = prev

\* C5: BuildInMemory is the first generator call of Build. The fallback is
\* entered exactly when it returned UnsupportedBuildMethodError; on any other
\* error Build returns that error with the root directory as it was, no
\* Generator.Build call and no output; on success the fallback is skipped and
\* the output is BuildInMemory's bytes. Build never returns the sentinel.
C5_Inv ==
    /\ calls # <<>> => calls[1].method = "BuildInMemory"
    /\ (pc \notin { "start", "integrated", "preprocessed" }) => calls # <<>>
    /\ (InFallback \/ Called("Build") \/ pkgBytes = "Build") =>
          calls[1].result = "UnsupportedBuildMethodError"
    /\ (calls # <<>> /\ IsFailure(calls[1].result)) =>
          /\ Returned /\ err = calls[1].result
          /\ Len(calls) = 1 /\ root = root0 /\ out = NoOutput /\ pkgBytes = "none"
    /\ (calls # <<>> /\ calls[1].result = "ok") =>
          /\ ~InFallback /\ ~Called("Build") /\ root = root0
          /\ pkgBytes = "BuildInMemory"
          /\ out.kind # "none" => out.bytes = "BuildInMemory"
    /\ err # "UnsupportedBuildMethodError"

C5_Step ==
    (pc = "preprocessed" /\ pc' # "preprocessed") =>
        /\ Len(calls') = 1
        /\ calls'[1].result = "UnsupportedBuildMethodError" <=> pc' = "removeStaleRoot"
        /\ calls'[1].result = "ok" <=> pc' = "output"
        /\ IsFailure(calls'[1].result) <=> pc' = "returned"

C5_InMemoryFirst == []C5_Inv /\ [][C5_Step]_vars

\* each of the three outcomes of BuildInMemory has been taken: a run that
\* failed in BuildInMemory with a stale root in place
C5_Witness ==
    /\ Returned /\ run = 2
    /\ IsFailure(calls[1].result)
    /\ root0 = "stale"

\* C6: on the fallback path, what a prior run left at the root path is gone
\* before the tree is materialized and before Generator.Build is called; if
\* removing it fails Build returns the error, and neither materializes nor
\* calls Generator.Build.
C6_StaleRootRemovedFirst ==
    /\ pc = "materialize" => root = "absent"
    /\ pc = "generatorBuild" => root = "materialized"
    /\ Called("Build") => root \in { "materialized", "packaged", "absent" }
    /\ (Returned /\ err = "RemoveAllError" /\ ~Called("Build")) =>
          root = "stale" /\ out = NoOutput /\ pkgBytes = "none"
    /\ (Returned /\ err = "RemoveAllError") => root = root0 \/ Called("Build")

\* a run that found a stale root and got as far as the generator's build
C6_Witness ==
    /\ root0 = "stale"
    /\ pc = "generatorBuild"

\* C7: on the fallback path, output is written and success returned only
\* with the root directory removed; and when Generator.Build fails, the root
\* directory is still there when Build returns and nothing has been written.
C7_RootRemovedOnSuccessKeptOnFailure ==
    /\ (pkgBytes = "Build" /\ (pc = "output" \/ out.kind # "none")) => root = "absent"
    /\ (Returned /\ err = "nil" /\ pkgBytes = "Build") => root = "absent"
    /\ (Returned /\ err = "BuildError") =>
          /\ root \in { "materialized", "packaged" }
          /\ out = NoOutput

\* a successful fallback build in a run after one whose Generator.Build failed
C7_Witness ==
    /\ Returned /\ err = "nil" /\ pkgBytes = "Build"
    /\ root0 = "stale"
    /\ out.complete

HasSeparatorOrWhitespace(name) ==
    \E i \in DOMAIN name :
        \/ name[i] = "/"
        \/ name[i] = " "
        \/ name[i] = "\t"
        \/ name[i] = "\r"
        \/ name[i] = "\n"

\* C8: with file output, a recommended file name holding '/', space, tab, CR
\* or LF makes Build fail with the 'unexpected filename' error and no file is
\* written; a file is only written under a name free of them. With stdout
\* output no file is written and RecommendedFileName is not called.
C8_FileNameValidated ==
    /\ (pkgFile # <<>> /\ HasSeparatorOrWhitespace(pkgFile)) =>
          /\ Returned /\ err = "UnexpectedFilename"
          /\ out = NoOutput
    /\ err = "UnexpectedFilename" =>
          /\ HasSeparatorOrWhitespace(pkgFile)
          /\ calls[Len(calls)].method = "RecommendedFileName"
    /\ out.kind = "file" =>
          /\ ~printToStdout
          /\ out.name = pkgFile
          /\ ~HasSeparatorOrWhitespace(out.name)
    /\ printToStdout =>
          /\ out.kind # "file"
          /\ ~Called("RecommendedFileName")
          /\ pkgFile = <<>>

\* a name with a carriage return has been refused
C8_Witness ==
    /\ err = "UnexpectedFilename"
    /\ \E i \in DOMAIN pkgFile : pkgFile[i] = "\r"

\* C9: BuildInMemory is called once, first, and only after both
\* pre-processing passes; Generator.Build at most once, directly after
\* BuildInMemory; RecommendedFileName at most once, directly after a build
\* method that returned successfully; and no generator method is called after
\* one has failed.
C9_GeneratorProtocol ==
    /\ ~Preprocessed => calls = <<>>
    /\ (pc \notin { "start", "integrated", "preprocessed" }) =>
          Cardinality({ i \in DOMAIN calls : calls[i].method = "BuildInMemory" }) = 1
    /\ \A i \in DOMAIN calls :
          /\ calls[i].method = "BuildInMemory" => i = 1
          /\ calls[i].method = "Build" =>
                i = 2 /\ calls[1].method = "BuildInMemory"
          /\ calls[i].method = "RecommendedFileName" =>
                /\ i > 1
                /\ calls[i - 1].method \in { "BuildInMemory", "Build" }
                /\ calls[i - 1].result = "ok"
                /\ i = Len(calls)
          /\ IsFailure(calls[i].result) => (i = Len(calls) /\ Returned)

\* all three methods have been called in one run
C9_Witness ==
    /\ Len(calls) = 3
    /\ calls[3].method = "RecommendedFileName"
    /\ err = "nil"

----------------------------------------------------------------------------
(* rpm.Generator.Build: the layout of the package file *)

MaxSectionLen == 9      \* longest lead, signature section and header section
MaxPayloadLen == 2      \* longest payload

\* n bytes of content; the bytes of a region carry the region's mark, so
\* that padding can be told from content
Bytes(mark, n) == [i \in 1..n |-> mark]

LeadMark == "lead"
SignatureMark == "signature"
HeaderMark == "header"
PayloadMark == "payload"

\* the byte appendAlignedTo8Byte appends
ZeroByte == "0x00"

RECURSIVE PadTo8(_)
\* the loop of appendAlignedTo8Byte
PadTo8(result) ==
    IF Len(result) % 8 # 0 THEN PadTo8(Append(result, ZeroByte)) ELSE result

\* variant: no padding at all
appendAlignedTo8Byte_Unpadded(a, b) == a \o b

appendAlignedTo8Byte(a, b) == PadTo8(a) \o b

\* the other variables do not take part in the generator's Build
RpmFrame ==
    /\ pkg0 = [Requires |-> <<>>, SetupScript |-> <<>>, CleanupScript |-> <<>>,
               FSRoot |-> <<>>]
    /\ pkg = pkg0
    /\ prev = pkg0
    /\ printToStdout = FALSE
    /\ buildReproducibly = TRUE
    /\ pc = "preprocessed"
    /\ err = "running"
    /\ pkgBytes = "none"
    /\ root = "absent"
    /\ root0 = "absent"
    /\ pkgFile = <<>>
    /\ out = NoOutput
    /\ calls = <<>>
    /\ run = 1

RpmUnchanged ==
    UNCHANGED <<pkg0, pkg, printToStdout, buildReproducibly, pc, err, pkgBytes,
                root, root0, pkgFile, out, calls, run, prev, pacman>>

RpmInit ==
    /\ RpmFrame
    /\ rpm = [RpmIdle EXCEPT !.pc = "start"]
    /\ pacman = PacmanIdle

\* generator.go:89-92
RpmMakePayload ==
    /\ rpm.pc = "start"
    /\ \/ \E n \in 0..MaxPayloadLen :
             rpm' = [rpm EXCEPT !.payload = Bytes(PayloadMark, n), !.pc = "payload"]
       \/ rpm' = [rpm EXCEPT !.pc = "failed"]
    /\ RpmUnchanged

\* generator.go:96
RpmMakeHeaderSection ==
    /\ rpm.pc = "payload"
    /\ \E n \in 0..MaxSectionLen :
          rpm' = [rpm EXCEPT !.headerSection = Bytes(HeaderMark, n), !.pc = "header"]
    /\ RpmUnchanged

\* generator.go:97
RpmMakeSignatureSection ==
    /\ rpm.pc = "header"
    /\ \E n \in 0..MaxSectionLen :
          rpm' = [rpm EXCEPT !.signatureSection = Bytes(SignatureMark, n),
                             !.pc = "signature"]
    /\ RpmUnchanged

\* generator.go:98
RpmNewLead ==
    /\ rpm.pc = "signature"
    /\ \E n \in 0..MaxSectionLen :
          rpm' = [rpm EXCEPT !.lead = Bytes(LeadMark, n), !.pc = "lead"]
    /\ RpmUnchanged

\* generator.go:101
RpmCombine1 ==
    /\ rpm.pc = "lead"
    /\ rpm' = [rpm EXCEPT !.combined1 = appendAlignedTo8Byte(rpm.lead, rpm.signatureSection),
                          !.pc = "combined1"]
    /\ RpmUnchanged

\* generator.go:102
RpmCombine2 ==
    /\ rpm.pc = "combined1"
    /\ rpm' = [rpm EXCEPT !.combined2 = appendAlignedTo8Byte(rpm.combined1, rpm.headerSection),
                          !.pc = "combined2"]
    /\ RpmUnchanged

\* generator.go:103
RpmReturn ==
    /\ rpm.pc = "combined2"
    /\ rpm' = [rpm EXCEPT !.result = rpm.combined2 \o rpm.payload, !.pc = "done"]
    /\ RpmUnchanged

RpmNext ==
    \/ RpmMakePayload
    \/ RpmMakeHeaderSection
    \/ RpmMakeSignatureSection
    \/ RpmNewLead
    \/ RpmCombine1
    \/ RpmCombine2
    \/ RpmReturn

SpecRPM == RpmInit /\ [][RpmNext]_vars

Zeros(n) == [i \in 1..n |-> "0x00"]

\* C10 as claimed: the output is lead, signature section, header section and
\* payload in that order, with fewer than 8 zero bytes and nothing else
\* between them, and the signature section, the header section and the
\* payload each start at a multiple of 8.
C10_AllRegionsAligned ==
    rpm.pc = "done" =>
        \E p1, p2, p3 \in 0..7 :
            /\ rpm.result = rpm.lead \o Zeros(p1) \o rpm.signatureSection \o Zeros(p2)
                              \o rpm.headerSection \o Zeros(p3) \o rpm.payload
            /\ (Len(rpm.lead) + p1) % 8 = 0
            /\ (Len(rpm.lead) + p1 + Len(rpm.signatureSection) + p2) % 8 = 0
            /\ (Len(rpm.lead) + p1 + Len(rpm.signatureSection) + p2
                  + Len(rpm.headerSection) + p3) % 8 = 0

\* C10 as amended: the output is lead, signature section, header section and
\* payload in that order; the signature section and the header section each
\* start at a multiple of 8, behind fewer than 8 zero bytes of padding; the
\* payload follows the header section directly, without padding.
C10_HeaderStructuresAligned ==
    rpm.pc = "done" =>
        \E p1, p2 \in 0..7 :
            /\ rpm.result = rpm.lead \o Zeros(p1) \o rpm.signatureSection \o Zeros(p2)
                              \o rpm.headerSection \o rpm.payload
            /\ (Len(rpm.lead) + p1) % 8 = 0
            /\ (Len(rpm.lead) + p1 + Len(rpm.signatureSection) + p2) % 8 = 0

\* an output whose lead, signature section and header section all end off an
\* 8-byte boundary
C10_Witness ==
    /\ rpm.pc = "done"
    /\ Len(rpm.lead) % 8 # 0
    /\ Len(rpm.signatureSection) % 8 # 0
    /\ Len(rpm.headerSection) % 8 # 0
    /\ rpm.payload # <<>>

----------------------------------------------------------------------------
(* pacman: fullVersionString *)

MaxVersionLen == 2      \* longest version string drawn from VersionChars
MaxRelease == 11        \* largest release
MaxEpoch == 2           \* largest epoch

\* the other variables do not take part in the Pacman generator's functions
PacmanFrame == RpmFrame /\ rpm = RpmIdle

PacmanUnchanged ==
    UNCHANGED <<pkg0, pkg, printToStdout, buildReproducibly, pc, err, pkgBytes,
                root, root0, pkgFile, out, calls, run, prev, rpm>>

VersionChars == { "1", ".", "-" }

\* the version strings of the packages built: the short ones over
\* VersionChars, and "1.2-3"
Versions ==
    UNION { [1..n -> VersionChars] : n \in 0..MaxVersionLen }
        \cup { <<"1", ".", "2", "-", "3">> }

DecimalDigits == <<"0", "1", "2", "3", "4", "5", "6", "7", "8", "9">>

RECURSIVE FormatInt(_)
\* fmt.Sprintf("%d", n) for n >= 0
FormatInt(n) ==
    IF n < 10 THEN << DecimalDigits[n + 1] >>
    ELSE FormatInt(n \div 10) \o << DecimalDigits[(n % 10) + 1] >>

\* strings.Replace(str, "-", "_", -1)
ReplaceDashes(str) == [i \in DOMAIN str |-> IF str[i] = "-" THEN "_" ELSE str[i]]

RECURSIVE ReplaceFirstDash(_)
ReplaceFirstDash(str) ==
    IF str = <<>> THEN <<>>
    ELSE IF Head(str) = "-" THEN <<"_">> \o Tail(str)
         ELSE <<Head(str)>> \o ReplaceFirstDash(Tail(str))

\* variant: only the first dash replaced
fullVersionString_FirstDashOnly(p) ==
    LET str == ReplaceFirstDash(p.Version) \o <<"-">> \o FormatInt(p.Release)
    IN  IF p.Epoch > 0 THEN FormatInt(p.Epoch) \o <<":">> \o str ELSE str

\* fullVersionString of the in-memory generator
fullVersionString(p) ==
    LET str == ReplaceDashes(p.Version) \o <<"-">> \o FormatInt(p.Release)
    IN  IF p.Epoch > 0 THEN FormatInt(p.Epoch) \o <<":">> \o str ELSE str

\* fullVersionString of the filesystem-rooted generator
fullVersionStringRooted(p) ==
    LET str == ReplaceDashes(p.Version) \o <<"-">> \o FormatInt(p.Release)
    IN  IF p.Epoch > 0 THEN FormatInt(p.Epoch) \o <<":">> \o str ELSE str

PkgverInit ==
    /\ PacmanFrame
    /\ pacman \in { [pc |-> "start", Version |-> v, Release |-> r, Epoch |-> e,
                     inMemory |-> <<>>, rooted |-> <<>>] :
                       v \in Versions, r \in 1..MaxRelease, e \in 0..MaxEpoch }

\* writePKGINFO of the in-memory generator renders pkgver
PkgverInMemory ==
    /\ pacman.pc = "start"
    /\ pacman' = [pacman EXCEPT !.inMemory = fullVersionString(pacman),
                                !.pc = "inMemory"]
    /\ PacmanUnchanged

\* writePKGINFO of the filesystem-rooted generator renders pkgver
PkgverRooted ==
    /\ pacman.pc = "inMemory"
    /\ pacman' = [pacman EXCEPT !.rooted = fullVersionStringRooted(pacman),
                                !.pc = "done"]
    /\ PacmanUnchanged

PkgverNext ==
    \/ PkgverInMemory
    \/ PkgverRooted

SpecPkgver == PkgverInit /\ [][PkgverNext]_vars

RECURSIVE DecimalValue(_)
\* the number a sequence of decimal digits denotes
DecimalValue(digits) ==
    IF digits = <<>> THEN 0
    ELSE 10 * DecimalValue(SubSeq(digits, 1, Len(digits) - 1))
         + (CHOOSE d \in 0..9 : DecimalDigits[d + 1] = digits[Len(digits)])

IsDigits(str) == str # <<>> /\ \A i \in DOMAIN str : \E d \in 1..10 : DecimalDigits[d] = str[i]

IsDash(c) == c = "-"

\* rendered is <epoch>: (if epoch > 0) version' - release, version' being the
\* version with '_' wherever it has '-'
IsPkgverOf(rendered, version, release, epoch) ==
    \E k \in 0..Len(rendered) :
        LET prefix == SubSeq(rendered, 1, k)
            body == SubSeq(rendered, k + 1, Len(rendered))
            rel == SubSeq(body, Len(version) + 2, Len(body))
        IN  /\ IF epoch > 0
               THEN /\ k > 1 /\ prefix[k] = ":"
                    /\ IsDigits(SubSeq(prefix, 1, k - 1))
                    /\ DecimalValue(SubSeq(prefix, 1, k - 1)) = epoch
               ELSE k = 0
            /\ Len(body) > Len(version) + 1
            /\ \A i \in 1..Len(version) :
                  body[i] = IF version[i] = "-" THEN "_" ELSE version[i]
            /\ body[Len(version) + 1] = "-"
            /\ IsDigits(rel) /\ DecimalValue(rel) = release

\* C11: the pkgver of both variants is the version with every '-' replaced
\* by '_', then '-' and the release, prefixed by '<epoch>:' exactly when
\* epoch > 0; it holds exactly one '-'; version "1.2-3", release 4 gives
\* "1.2_3-4" for epoch 0 and "2:1.2_3-4" for epoch 2.
C11_Pkgver ==
    pacman.pc = "done" =>
        /\ pacman.rooted = pacman.inMemory
        /\ IsPkgverOf(pacman.inMemory, pacman.Version, pacman.Release, pacman.Epoch)
        /\ (pacman.Epoch = 0) <=> (\A i \in DOMAIN pacman.inMemory : pacman.inMemory[i] # ":")
        /\ Count(pacman.inMemory, IsDash) = 1
        /\ (pacman.Version = <<"1", ".", "2", "-", "3">> /\ pacman.Release = 4) =>
              /\ pacman.Epoch = 0 => pacman.inMemory = <<"1", ".", "2", "_", "3", "-", "4">>
              /\ pacman.Epoch = 2 =>
                    pacman.inMemory = <<"2", ":", "1", ".", "2", "_", "3", "-", "4">>

\* the example of the claim with an epoch, rendered by both variants
C11_Witness ==
    /\ pacman.pc = "done"
    /\ pacman.Version = <<"1", ".", "2", "-", "3">>
    /\ pacman.Release = 4
    /\ pacman.Epoch = 2

----------------------------------------------------------------------------
(* pacman: compileBackupMarkers *)

MaxEntries == 4         \* most filesystem entries of a package

\* the characters of the paths and marker lines, in the order of their bytes
ByteOrder == <<"\n", " ", "-", "/", "=", "a", "b", "c", "d", "e", "f", "h",
             "i", "k", "l", "o", "p", "r", "s", "t", "u", "x">>

ByteOf(ch) == CHOOSE i \in DOMAIN ByteOrder : ByteOrder[i] = ch

RECURSIVE StringLess(_, _)
\* a < b for Go strings
StringLess(a, b) ==
    IF b = <<>> THEN FALSE
    ELSE IF a = <<>> THEN TRUE
    ELSE IF Head(a) # Head(b) THEN ByteOf(Head(a)) < ByteOf(Head(b))
    ELSE StringLess(Tail(a), Tail(b))

RECURSIVE InsertSorted(_, _)
InsertSorted(x, sorted) ==
    IF sorted = <<>> THEN <<x>>
    ELSE IF StringLess(Head(sorted), x)
         THEN <<Head(sorted)>> \o InsertSorted(x, Tail(sorted))
         ELSE <<x>> \o sorted

RECURSIVE SortStrings(_)
\* sort.Strings(lines)
SortStrings(lines) ==
    IF lines = <<>> THEN <<>> ELSE InsertSorted(Head(lines), SortStrings(Tail(lines)))

RECURSIVE Join(_)
\* strings.Join(lines, "")
Join(lines) == IF lines = <<>> THEN <<>> ELSE Head(lines) \o Join(Tail(lines))

\* strings.HasPrefix(str, prefix)
HasPrefix(str, prefix) ==
    Len(str) >= Len(prefix) /\ SubSeq(str, 1, Len(prefix)) = prefix

\* strings.TrimPrefix(str, prefix)
TrimPrefix(str, prefix) ==
    IF HasPrefix(str, prefix) THEN SubSeq(str, Len(prefix) + 1, Len(str)) ELSE str

HoloPrefixRelative == <<"u", "s", "r", "/", "s", "h", "a", "r", "e", "/", "h", "o",
                      "l", "o", "/">>

HoloPrefixAbsolute == <<"/">> \o HoloPrefixRelative

\* fmt.Sprintf("backup = %s\n", path)
BackupLine(path) == <<"b", "a", "c", "k", "u", "p", " ", "=", " ">> \o path \o <<"\n">>

\* the filesystem entries a package may have
CandidateEntries ==
    { [Path |-> <<"/", "e", "t", "c", "/", "b">>,
       Type |-> FSRegularFile],
      [Path |-> <<"/", "e", "t", "c", "/", "a">>,
       Type |-> FSRegularFile],
      [Path |-> <<"/", "e", "t", "c", "/", "a", "-", "b">>,
       Type |-> FSRegularFile],
      [Path |-> <<"/", "e", "t", "c", "/", "d">>,
       Type |-> FSDirectory],
      [Path |-> <<"/", "e", "t", "c", "/", "l">>,
       Type |-> FSSymlink],
      [Path |-> <<"/", "u", "s", "r", "/", "s", "h", "a", "r", "e", "/", "h",
                  "o", "l", "o", "/", "f", "i", "l", "e", "s", "/", "a">>,
       Type |-> FSRegularFile],
      [Path |-> <<"/", "u", "s", "r", "/", "s", "h", "a", "r", "e", "/", "h",
                  "o", "l", "o", "x">>,
       Type |-> FSRegularFile],
      [Path |-> <<"/", "u", "s", "r", "/", "s", "h", "a", "r", "e", "/", "h",
                  "o", "l", "o", "/", "f", "i", "l", "e", "s">>,
       Type |-> FSDirectory] }

\* the path WalkFSWithRelativePaths passes to its callback
RelativePath(entry) == Tail(entry.Path)

RECURSIVE BackupLinesInMemory(_)
\* the lines collected by the walk of the in-memory generator
BackupLinesInMemory(entries) ==
    IF entries = <<>> THEN <<>>
    ELSE (IF Head(entries).Type # FSRegularFile THEN <<>>
          ELSE IF ~HasPrefix(RelativePath(Head(entries)), HoloPrefixRelative)
               THEN << BackupLine(RelativePath(Head(entries))) >>
               ELSE <<>>)
         \o BackupLinesInMemory(Tail(entries))

RECURSIVE BackupLinesRooted(_)
\* the lines collected by the loop of the filesystem-rooted generator
BackupLinesRooted(entries) ==
    IF entries = <<>> THEN <<>>
    ELSE (IF /\ Head(entries).Type = FSRegularFile
             /\ ~HasPrefix(Head(entries).Path, HoloPrefixAbsolute)
          THEN << BackupLine(TrimPrefix(Head(entries).Path, <<"/">>)) >>
          ELSE <<>>)
         \o BackupLinesRooted(Tail(entries))

\* variant: the lines joined in the order of the walk
compileBackupMarkers_Unsorted(entries) == Join(BackupLinesInMemory(entries))

\* compileBackupMarkers of the in-memory generator
compileBackupMarkers(entries) == Join(SortStrings(BackupLinesInMemory(entries)))

\* compileBackupMarkers of the filesystem-rooted generator
compileBackupMarkersRooted(entries) == Join(SortStrings(BackupLinesRooted(entries)))

\* the entries of a package, in the order in which they are visited
EntryLists == UNION { SeqsOver(S) : S \in { T \in SUBSET CandidateEntries :
                                               Cardinality(T) <= MaxEntries } }

BackupInit ==
    /\ PacmanFrame
    /\ pacman \in { [pc |-> "start", entries |-> es, inMemory |-> <<>>, rooted |-> <<>>] :
                       es \in EntryLists }

BackupInMemory ==
    /\ pacman.pc = "start"
    /\ pacman' = [pacman EXCEPT !.inMemory = compileBackupMarkers(pacman.entries),
                                !.pc = "inMemory"]
    /\ PacmanUnchanged

BackupRooted ==
    /\ pacman.pc = "inMemory"
    /\ pacman' = [pacman EXCEPT !.rooted = compileBackupMarkersRooted(pacman.entries),
                                !.pc = "done"]
    /\ PacmanUnchanged

BackupNext ==
    \/ BackupInMemory
    \/ BackupRooted

SpecBackup == BackupInit /\ [][BackupNext]_vars

RECURSIVE SplitLines(_)
\* the lines of a text, each ending with its line feed
SplitLines(text) ==
    IF text = <<>> THEN <<>>
    ELSE LET n == CHOOSE i \in DOMAIN text :
                      text[i] = "\n" /\ \A j \in 1..(i - 1) : text[j] # "\n"
         IN  <<SubSeq(text, 1, n)>> \o SplitLines(SubSeq(text, n + 1, Len(text)))

\* the path a marker line names
MarkerPath(line) == SubSeq(line, 10, Len(line) - 1)

\* the paths, without the leading '/', that are to be marked: those of the
\* regular files that are not under /usr/share/holo/
PathsToMark ==
    { SubSeq(e.Path, 2, Len(e.Path)) :
        e \in { x \in { pacman.entries[i] : i \in DOMAIN pacman.entries } :
                  /\ x.Type = "file"
                  /\ ~ \E rest \in { SubSeq(x.Path, 17, Len(x.Path)) } :
                         x.Path = HoloPrefixAbsolute \o rest } }

----------------------------------------------------------------------------
(* pacman: writeINSTALL *)

MaxScriptLen == 2       \* longest SetupScript and CleanupScript

ScriptChars == { " ", "\n", "\t", "x" }

ScriptTexts == UNION { [1..n -> ScriptChars] : n \in 0..MaxScriptLen }

\* the characters strings.TrimSpace cuts off, as far as they occur in the scripts
WhiteSpace == { " ", "\n", "\t", "\r" }

RECURSIVE TrimLeft(_)
TrimLeft(str) ==
    IF str # <<>> /\ Head(str) \in WhiteSpace THEN TrimLeft(Tail(str)) ELSE str

RECURSIVE TrimRight(_)
TrimRight(str) ==
    IF str # <<>> /\ str[Len(str)] \in WhiteSpace
    THEN TrimRight(SubSeq(str, 1, Len(str) - 1))
    ELSE str

\* strings.TrimSpace(str)
TrimSpace(str) == TrimRight(TrimLeft(str))

\* variant: the scripts taken as they are
InstallContents_Untrimmed(setupScript, cleanupScript) ==
    (IF setupScript # <<>>
     THEN <<"post_install() {\n">> \o setupScript
              \o <<"\n}\npost_upgrade() {\npost_install\n}\n">>
     ELSE <<>>)
    \o (IF cleanupScript # <<>>
        THEN <<"post_remove() {\n">> \o cleanupScript \o <<"\n}\n">>
        ELSE <<>>)

\* the contents writeINSTALL assembles; the fixed parts of the format
\* strings are single elements, the scripts go in character by character
InstallContents(setupScript, cleanupScript) ==
    (IF TrimSpace(setupScript) # <<>>
     THEN <<"post_install() {\n">> \o TrimSpace(setupScript)
              \o <<"\n}\npost_upgrade() {\npost_install\n}\n">>
     ELSE <<>>)
    \o (IF TrimSpace(cleanupScript) # <<>>
        THEN <<"post_remove() {\n">> \o TrimSpace(cleanupScript) \o <<"\n}\n">>
        ELSE <<>>)

NoFile == [exists |-> FALSE, Content |-> <<>>, Mode |-> "none"]
RegularFile(content) == [exists |-> TRUE, Content |-> content, Mode |-> "0644"]

\* pkg.FSRoot.Entries, respectively the root directory, before writeINSTALL:
\* the package's files and .PKGINFO, and possibly a file .INSTALL of the package
EntriesBefore(hasInstall) ==
    [name \in { ".PKGINFO", ".INSTALL", "etc" } |->
        IF name = ".INSTALL" /\ ~hasInstall THEN NoFile
        ELSE RegularFile(<<name>>)]

\* writeINSTALL of the in-memory generator
writeINSTALL(entries, setupScript, cleanupScript) ==
    LET contents == InstallContents(setupScript, cleanupScript)
    IN  IF contents = <<>> THEN entries
        ELSE [entries EXCEPT ![".INSTALL"] = RegularFile(contents)]

InstallInit ==
    /\ PacmanFrame
    /\ pacman \in { [pc |-> "start", SetupScript |-> su, CleanupScript |-> cl,
                     hasInstall |-> h, Entries |-> EntriesBefore(h),
                     rootDir |-> EntriesBefore(h), err |-> "nil"] :
                       su \in ScriptTexts, cl \in ScriptTexts, h \in BOOLEAN }

\* Build of the in-memory generator calls writeINSTALL
InstallInMemory ==
    /\ pacman.pc = "start"
    /\ pacman' = [pacman EXCEPT
                    !.Entries = writeINSTALL(@, pacman.SetupScript, pacman.CleanupScript),
                    !.pc = "inMemory"]
    /\ PacmanUnchanged

\* Build of the filesystem-rooted generator calls writeINSTALL; a failed
\* common.WriteFile may leave the file as it was or incomplete
InstallRooted ==
    /\ pacman.pc = "inMemory"
    /\ LET contents == InstallContents(pacman.SetupScript, pacman.CleanupScript)
       IN  IF contents = <<>>
           THEN pacman' = [pacman EXCEPT !.pc = "done"]
           ELSE \/ pacman' = [pacman EXCEPT !.rootDir[".INSTALL"] = RegularFile(contents),
                                            !.pc = "done"]
                \/ \E left \in { pacman.rootDir[".INSTALL"], RegularFile(<<>>) } :
                      pacman' = [pacman EXCEPT !.rootDir[".INSTALL"] = left,
                                               !.err = "WriteFileError",
                                               !.pc = "done"]
    /\ PacmanUnchanged

InstallNext ==
    \/ InstallInMemory
    \/ InstallRooted

SpecInstall == InstallInit /\ [][InstallNext]_vars

IsBlank(script) ==
    \A i \in DOMAIN script : script[i] = " " \/ script[i] = "\n" \/ script[i] = "\t"

\* the script without the white space around it
Core(script) ==
    LET solid == { i \in DOMAIN script : ~IsBlank(<<script[i]>>) }
    IN  IF solid = {} THEN <<>>
        ELSE SubSeq(script, CHOOSE i \in solid : \A j \in solid : i <= j,
                            CHOOSE i \in solid : \A j \in solid : i >= j)

Holds(content, part) == \E i \in DOMAIN content : content[i] = part

\* content is what .INSTALL is to hold for the two scripts
IsInstallFileFor(content, setupScript, cleanupScript) ==
    /\ Holds(content, "post_install() {\n") <=> ~IsBlank(setupScript)
    /\ Holds(content, "\n}\npost_upgrade() {\npost_install\n}\n") <=> ~IsBlank(setupScript)
    /\ Holds(content, "post_remove() {\n") <=> ~IsBlank(cleanupScript)
    /\ LET hooks == (IF IsBlank(setupScript) THEN <<>>
                     ELSE <<"post_install() {\n">> \o Core(setupScript)
                              \o <<"\n}\npost_upgrade() {\npost_install\n}\n">>)
              remove == (IF IsBlank(cleanupScript) THEN <<>>
                         ELSE <<"post_remove() {\n">> \o Core(cleanupScript) \o <<"\n}\n">>)
       IN  content = hooks \o remove

\* C13: .INSTALL is written exactly when SetupScript or CleanupScript is
\* not blank. It then holds post_install around the trimmed SetupScript and a
\* post_upgrade that calls post_install exactly when SetupScript is not
\* blank, and post_remove around the trimmed CleanupScript exactly when
\* CleanupScript is not blank. With both blank neither FSRoot.Entries nor the
\* root directory is changed. (The filesystem-rooted variant may fail to
\* write; it then returns the error.)
C13_InstallFile ==
    pacman.pc = "done" =>
        LET blank == IsBlank(pacman.SetupScript) /\ IsBlank(pacman.CleanupScript)
            before == EntriesBefore(pacman.hasInstall)
        IN  /\ \A name \in { ".PKGINFO", "etc" } :
                  /\ pacman.Entries[name] = before[name]
                  /\ pacman.rootDir[name] = before[name]
            /\ blank =>
                  /\ pacman.Entries = before
                  /\ pacman.rootDir = before
                  /\ pacman.err = "nil"
            /\ ~blank =>
                  /\ pacman.Entries[".INSTALL"].exists
                  /\ pacman.Entries[".INSTALL"].Mode = "0644"
                  /\ IsInstallFileFor(pacman.Entries[".INSTALL"].Content,
                                      pacman.SetupScript, pacman.CleanupScript)
                  /\ pacman.err = "nil" =>
                        pacman.rootDir[".INSTALL"] = pacman.Entries[".INSTALL"]

\* both variants have written hooks for a padded SetupScript and a blank
\* CleanupScript
C13_Witness ==
    /\ pacman.pc = "done"
    /\ pacman.err = "nil"
    /\ pacman.SetupScript = <<" ", "x">>
    /\ pacman.CleanupScript = <<"\n">>
    /\ pacman.rootDir[".INSTALL"].exists
    /\ ~pacman.hasInstall

====
